---- MODULE Spec2Model ----
(***************************************************************************)
(* Tagger (FoundryVTT): the tag storage of documents, the mutation         *)
(* operations of the Tagger class (setTags, addTags, removeTags,           *)
(* toggleTags, clearAllTags) and the tag queries (getByTag, hasTags).      *)
(*                                                                         *)
(* A JavaScript string is a sequence of one-character strings, so that     *)
(* split, trim, toLowerCase and the regular expression built from a query  *)
(* tag are computed character by character.                                *)
(***************************************************************************)
EXTENDS FiniteSets, Integers, Sequences, TLC

\* ------------------------------------------------------------------ bounds
\* most comma-separated pieces in one tag input of a mutation call
MaxPieces == 2
\* most tags stored on an entity when a query starts
MaxStored == 2
\* most tags in one query
MaxQuery == 2
\* most characters of the tag and of the query tag of a one-tag query
MaxTagLen == 2
MaxPatternLen == 2
\* most handles in options.ignore
MaxIgnore == 1
\* most tags on a document when rules are applied to it
MaxRuleTags == 2
\* most ids randomID hands out
MaxIds == 2
\* the largest number of a numbered tag the properties look for
MaxNumber == 9
\* most pieces or elements in the tag input of a call followed pass by pass
MaxArgPieces == 2
\* most calls running at the same time
MaxTasks == 2

\* the documents of the scene
Entities == {"e1", "e2"}
\* the letters tags are made of in mutation calls
Letters == {"a", "b"}
\* the ids of game.scenes, in the order of the collection; the canvas shows
\* the first
SceneIds == <<"s1", "s2">>
CanvasId == "s1"

\* ------------------------------------------------------- sequence helpers
Range(s) == {s[i] : i \in 1..Len(s)}

SeqsUpTo(S, n) == UNION {[1..k -> S] : k \in 0..n}

NoDuplicates(s) == \A i, j \in 1..Len(s) : s[i] = s[j] => i = j

\* Array.prototype.includes
Includes(s, x) == \E i \in 1..Len(s) : s[i] = x

\* Array.prototype.filter with the predicate "is not in drop"
RECURSIVE Without(_, _)
Without(s, drop) ==
    IF s = <<>> THEN <<>>
    ELSE IF Head(s) \in drop THEN Without(Tail(s), drop)
         ELSE <<Head(s)>> \o Without(Tail(s), drop)

\* new Set(array) followed by Array.from: first occurrences, insertion order
RECURSIVE SetOf(_)
SetOf(s) ==
    IF s = <<>> THEN <<>>
    ELSE <<Head(s)>> \o SetOf(Without(Tail(s), {Head(s)}))

\* --------------------------------------------------------- string helpers
\* String.prototype.split(",")
RECURSIVE SplitFrom(_, _)
SplitFrom(s, cur) ==
    IF s = <<>> THEN <<cur>>
    ELSE IF Head(s) = "," THEN <<cur>> \o SplitFrom(Tail(s), <<>>)
         ELSE SplitFrom(Tail(s), Append(cur, Head(s)))

Split(s) == SplitFrom(s, <<>>)

RECURSIVE TrimStart(_)
TrimStart(s) ==
    IF s # <<>> /\ Head(s) = " " THEN TrimStart(Tail(s)) ELSE s

RECURSIVE TrimEnd(_)
TrimEnd(s) ==
    IF s # <<>> /\ s[Len(s)] = " " THEN TrimEnd(SubSeq(s, 1, Len(s) - 1)) ELSE s

\* String.prototype.trim
Trim(s) == TrimEnd(TrimStart(s))

\* a RegExp object with the given source (no flags): as an element of a tag
\* list it is told from a string by its first element
RegExpOf(source) == <<"RegExp">> \o source

\* t instanceof RegExp
IsRegExp(t) == t # <<>> /\ Head(t) = "RegExp"

\* a tag input is a string, a RegExp, or an array of strings and RegExps
StringInput(s) == [kind |-> "string", s |-> s, a |-> <<>>]
ArrayInput(a) == [kind |-> "array", s |-> <<>>, a |-> a]
RegExpInput(source) == [kind |-> "regexp", s |-> source, a |-> <<>>]

\* Tagger._validateTags: split a string on commas, trim every string piece
\* and drop the empty ones; a RegExp is kept as it is
RECURSIVE TrimAll(_)
TrimAll(a) ==
    IF a = <<>> THEN <<>>
    ELSE <<IF IsRegExp(Head(a)) THEN Head(a) ELSE Trim(Head(a))>> \o TrimAll(Tail(a))

ValidateTags_KeepEmpty(inTags) ==
    LET providedTags == IF inTags.kind = "string" THEN Split(inTags.s)
                        ELSE IF inTags.kind = "regexp" THEN <<RegExpOf(inTags.s)>>
                        ELSE inTags.a
    IN  TrimAll(providedTags)

ValidateTags(inTags) ==
    LET providedTags == IF inTags.kind = "string" THEN Split(inTags.s)
                        ELSE IF inTags.kind = "regexp" THEN <<RegExpOf(inTags.s)>>
                        ELSE inTags.a
    IN  Without(TrimAll(providedTags), {<<>>})

\* ------------------------------------------------------------------ state
VARIABLES
    flags,          \* flags[e]: the tagger.tags flag of document e
    before,         \* the flags when the last mutation call started
    lastCall,       \* the last mutation call: its name, entities and validated tags
    query,          \* the tag query to run: its tags and options
    result,         \* what the query returned
    scenes,         \* game.scenes: scenes[id] lists the documents of scene id
    temporaryIds,   \* the id cache of the "{id}" rule: template -> list of ids
    nextId,         \* how many ids randomID has handed out
    tasks,          \* the calls followed pass by pass: arguments and progress
    pending         \* the writes the host has not acknowledged, oldest first

vars == <<flags, before, lastCall, query, result, scenes, temporaryIds, nextId,
          tasks, pending>>

\* the flag is absent, or holds an array of strings
Unset == [present |-> FALSE, value |-> <<>>]
Stored(tags) == [present |-> TRUE, value |-> tags]

\* document.getFlag(...) ?? []
FlagOrEmpty(f, obj) == IF f[obj].present THEN f[obj].value ELSE <<>>

\* Tagger.getTags
GetTagsIn(f, obj) == ValidateTags(ArrayInput(FlagOrEmpty(f, obj)))

GetTags(obj) == GetTagsIn(flags, obj)

NoCall == [op |-> "none", objs |-> <<>>, tags |-> <<>>]
NoResult == [op |-> "none", of |-> <<>>, error |-> FALSE, objects |-> <<>>,
             byScene |-> <<>>, has |-> FALSE]

\* one scene holds every document
OneScene == [id \in Range(SceneIds) |->
                IF id = CanvasId THEN <<"e1", "e2">> ELSE <<>>]

\* temporaryIds = {}
NoIds == <<>>

\* no call is followed pass by pass; no write is on its way
NoTasks == <<>>

\* ------------------------------------------------- the mutation operations
\* the options object of Tagger._updateTags; given is FALSE when inTags keeps
\* its default (false)
UpdateOptions(given, inTags, isSetting, isAdding, isToggling, applyRules) ==
    [given |-> given, inTags |-> inTags, isSetting |-> isSetting,
     isAdding |-> isAdding, isToggling |-> isToggling, applyRules |-> applyRules]

ToggledTags_NoDelete(tags, inTags) ==
    LET incomingTags == SetOf(inTags)
        kept == Without(tags, Range(incomingTags))
    IN  SetOf(kept \o incomingTags)

\* the isToggling branch: keep the tags that are not incoming, then append
\* the incoming tags the entity did not carry
ToggledTags(tags, inTags) ==
    LET incomingTags == SetOf(inTags)
        kept == Without(tags, Range(incomingTags))
        remaining == Without(incomingTags, Range(tags))
    IN  SetOf(kept \o remaining)

SettingTags_Keep(tags, inTags) == SetOf(tags \o inTags)

\* the isSetting branch
SettingTags(tags, inTags) == SetOf(inTags)

AddedTags_Overwrite(tags, inTags) == SetOf(inTags)

\* the isAdding branch
AddedTags(tags, inTags) == SetOf(tags \o inTags)

RemovedTags_First(tags, inTags) ==
    IF inTags = <<>> THEN tags ELSE Without(tags, {Head(inTags)})

\* the last branch: inTags.forEach(t => tags.delete(t))
RemovedTags(tags, inTags) == Without(tags, Range(inTags))

\* the tag set one pass of the loop computes for an entity
NewTags(tags, o) ==
    IF o.isToggling THEN ToggledTags(tags, o.inTags)
    ELSE IF o.isSetting THEN SettingTags(tags, o.inTags)
    ELSE IF o.isAdding THEN AddedTags(tags, o.inTags)
    ELSE RemovedTags(tags, o.inTags)

WrittenFlag_Always(tags, o) == Stored(tags)

\* what one pass of the loop writes: unsetFlag for an empty set, setFlag for
\* the others
WrittenFlag(tags, o) ==
    IF Len(tags) = 0 /\ ~o.applyRules THEN Unset ELSE Stored(tags)

\* one pass of the loop of Tagger._updateTags
UpdateObject(f, obj, o) ==
    LET tags == SetOf(GetTagsIn(f, obj))
    IN  [f EXCEPT ![obj] = WrittenFlag(NewTags(tags, o), o)]

RECURSIVE UnsetAll(_, _)
UnsetAll(f, inObjects) ==
    IF inObjects = <<>> THEN f
    ELSE UnsetAll([f EXCEPT ![Head(inObjects)] = Unset], Tail(inObjects))

RECURSIVE UpdateAll(_, _, _)
UpdateAll(f, inObjects, o) ==
    IF inObjects = <<>> THEN f
    ELSE UpdateAll(UpdateObject(f, Head(inObjects), o), Tail(inObjects), o)

UpdateTags_NoClear(f, inObjects, o) == UpdateAll(f, inObjects, o)

\* Tagger._updateTags: the entities are processed in list order, each pass
\* reading the flags the earlier passes wrote
UpdateTags(f, inObjects, o) ==
    IF ~o.given /\ ~o.applyRules THEN UnsetAll(f, inObjects)
    ELSE UpdateAll(f, inObjects, o)

\* the entity lists of the calls: one or more documents, each named once
ObjectLists ==
    {s \in SeqsUpTo(Entities, Cardinality(Entities)) \ {<<>>} : NoDuplicates(s)}

\* one comma-separated piece or array element: empty, blank, or a letter with
\* or without blanks around it
Pieces ==
    {<<>>, <<" ">>} \cup {<<l>> : l \in Letters}
                    \cup {<<" ", l>> : l \in Letters}
                    \cup {<<l, " ">> : l \in Letters}
                    \cup {<<" ", l, " ">> : l \in Letters}

RECURSIVE Join(_)
Join(ps) ==
    IF Len(ps) = 1 THEN ps[1] ELSE ps[1] \o <<",">> \o Join(Tail(ps))

TagInputs ==
    {StringInput(Join(ps)) : ps \in SeqsUpTo(Pieces, MaxPieces) \ {<<>>}}
        \cup {ArrayInput(ps) : ps \in SeqsUpTo(Pieces, MaxPieces)}

\* this._validateTags(inTags, ...) of every tag input: the calls hand the
\* validated list to _updateTags
ProvidedTags == {ValidateTags(inTags) : inTags \in TagInputs}

\* the options each call hands to _updateTags
SetOptions(providedTags) == UpdateOptions(TRUE, providedTags, TRUE, TRUE, FALSE, FALSE)
ToggleOptions(providedTags) == UpdateOptions(TRUE, providedTags, FALSE, TRUE, TRUE, FALSE)
AddOptions(providedTags) == UpdateOptions(TRUE, providedTags, FALSE, TRUE, FALSE, FALSE)
RemoveOptions(providedTags) == UpdateOptions(TRUE, providedTags, FALSE, FALSE, FALSE, FALSE)
ClearOptions == UpdateOptions(FALSE, <<>>, FALSE, TRUE, FALSE, FALSE)

Called(op, inObjects, providedTags) ==
    [op |-> op, objs |-> inObjects, tags |-> providedTags]

SetTags(inObjects, providedTags) ==
    /\ flags' = UpdateTags(flags, inObjects, SetOptions(providedTags))
    /\ before' = flags
    /\ lastCall' = Called("setTags", inObjects, providedTags)
    /\ UNCHANGED <<query, result, scenes, temporaryIds, nextId, tasks, pending>>

ToggleTags(inObjects, providedTags) ==
    /\ flags' = UpdateTags(flags, inObjects, ToggleOptions(providedTags))
    /\ before' = flags
    /\ lastCall' = Called("toggleTags", inObjects, providedTags)
    /\ UNCHANGED <<query, result, scenes, temporaryIds, nextId, tasks, pending>>

AddTags(inObjects, providedTags) ==
    /\ flags' = UpdateTags(flags, inObjects, AddOptions(providedTags))
    /\ before' = flags
    /\ lastCall' = Called("addTags", inObjects, providedTags)
    /\ UNCHANGED <<query, result, scenes, temporaryIds, nextId, tasks, pending>>

RemoveTags(inObjects, providedTags) ==
    /\ flags' = UpdateTags(flags, inObjects, RemoveOptions(providedTags))
    /\ before' = flags
    /\ lastCall' = Called("removeTags", inObjects, providedTags)
    /\ UNCHANGED <<query, result, scenes, temporaryIds, nextId, tasks, pending>>

ClearAllTags(inObjects) ==
    /\ flags' = UpdateTags(flags, inObjects, ClearOptions)
    /\ before' = flags
    /\ lastCall' = Called("clearAllTags", inObjects, <<>>)
    /\ UNCHANGED <<query, result, scenes, temporaryIds, nextId, tasks, pending>>

NoQuery == [tags |-> ArrayInput(<<>>), matchAny |-> FALSE, matchExactly |-> FALSE,
            caseInsensitive |-> FALSE, ignore |-> <<>>, allScenes |-> FALSE,
            sceneId |-> CanvasId]

\* every document starts without the flag
Init ==
    /\ flags = [e \in Entities |-> Unset]
    /\ before = flags
    /\ lastCall = NoCall
    /\ query = NoQuery
    /\ result = NoResult
    /\ scenes = OneScene
    /\ temporaryIds = NoIds
    /\ nextId = 0
    /\ tasks = NoTasks
    /\ pending = <<>>

Next ==
    \/ \E inObjects \in ObjectLists, providedTags \in ProvidedTags :
            SetTags(inObjects, providedTags)
    \/ \E inObjects \in ObjectLists, providedTags \in ProvidedTags :
            ToggleTags(inObjects, providedTags)
    \/ \E inObjects \in ObjectLists, providedTags \in ProvidedTags :
            AddTags(inObjects, providedTags)
    \/ \E inObjects \in ObjectLists, providedTags \in ProvidedTags :
            RemoveTags(inObjects, providedTags)
    \/ \E inObjects \in ObjectLists : ClearAllTags(inObjects)

Spec == Init /\ [][Next]_vars

\* ------------------------------------------------------------ the queries
\* String.prototype.toLowerCase
LowerChar(c) ==
    CASE c = "A" -> "a"
      [] c = "B" -> "b"
      [] OTHER -> c

ToLowerCase(s) == [i \in 1..Len(s) |-> LowerChar(s[i])]

RECURSIVE LowerAll(_)
LowerAll(a) ==
    IF a = <<>> THEN <<>> ELSE <<ToLowerCase(Head(a))>> \o LowerAll(Tail(a))

\* String.prototype.replaceAll of one character
RECURSIVE ReplaceAll(_, _, _)
ReplaceAll(s, c, by) ==
    IF s = <<>> THEN <<>>
    ELSE (IF Head(s) = c THEN by ELSE <<Head(s)>>) \o ReplaceAll(Tail(s), c, by)

\* the source of the RegExp a query tag is tested as: a RegExp is taken as it
\* is; in the JavaScript string literal "\." is the one character "."
RegExpSource(t, caseInsensitive) ==
    IF IsRegExp(t) THEN Tail(t)
    ELSE LET cased == IF caseInsensitive THEN ToLowerCase(t) ELSE t
             anchored == <<"^">> \o cased \o <<"$">>
             dotted == ReplaceAll(anchored, ".", <<".">>)
         IN  ReplaceAll(dotted, "*", <<"(", ".", "*", "?", ")">>)

LazyGroup == <<"(", ".", "*", "?", ")">>

\* the group the "{#}" rule searches numbers with
NumberGroup == <<"(", "[", "1", "-", "9", "]", "+", "[", "0", "-", "9", "]", "*", ")">>

Digits == <<"0", "1", "2", "3", "4", "5", "6", "7", "8", "9">>

IsDigit(c) == \E d \in 1..10 : Digits[d] = c

\* what [1-9]+[0-9]* matches as a whole: digits, the first of them not 0
IsNumber(s) ==
    /\ s # <<>>
    /\ \A i \in 1..Len(s) : IsDigit(s[i])
    /\ s[1] # "0"

StartsWith(s, prefix) ==
    Len(s) >= Len(prefix) /\ SubSeq(s, 1, Len(prefix)) = prefix

Drop(s, n) == SubSeq(s, n + 1, Len(s))

\* whether the pattern r matches a prefix of s ("$" asks for the end of s;
\* "." matches any character but a line terminator)
RECURSIVE MatchHere(_, _)
MatchHere(r, s) ==
    IF r = <<>> THEN TRUE
    ELSE IF r = <<"$">> THEN s = <<>>
    ELSE IF StartsWith(r, LazyGroup)
         THEN \E k \in 0..Len(s) : MatchHere(Drop(r, Len(LazyGroup)), Drop(s, k))
    ELSE IF StartsWith(r, NumberGroup)
         THEN \E k \in 1..Len(s) :
                /\ IsNumber(SubSeq(s, 1, k))
                /\ MatchHere(Drop(r, Len(NumberGroup)), Drop(s, k))
    ELSE IF Head(r) = "."
         THEN s # <<>> /\ Head(s) # "\n" /\ MatchHere(Tail(r), Tail(s))
    ELSE s # <<>> /\ Head(s) = Head(r) /\ MatchHere(Tail(r), Tail(s))

\* RegExp.prototype.test
RegExpTest(source, s) ==
    IF source # <<>> /\ Head(source) = "^" THEN MatchHere(Tail(source), s)
    ELSE \E k \in 0..Len(s) : MatchHere(source, Drop(s, k))

RECURSIVE CompileAll(_, _)
CompileAll(tags, caseInsensitive) ==
    IF tags = <<>> THEN <<>>
    ELSE <<RegExpSource(Head(tags), caseInsensitive)>>
            \o CompileAll(Tail(tags), caseInsensitive)

\* a document is known to the callers by its own handle and by the handle of
\* the PlaceableObject that shows it on the canvas
ObjectOf(document) ==
    CASE document = "e1" -> "o1"
      [] document = "e2" -> "o2"
      [] OTHER -> document

\* inObject?.document ?? inObject
DocumentOf(inObject) ==
    CASE inObject = "o1" -> "e1"
      [] inObject = "o2" -> "e2"
      [] OTHER -> inObject

Handles == Entities \cup {ObjectOf(e) : e \in Entities}

\* the tags an object is tested with
ObjectTags_KeepCase(f, inObject, options) == GetTagsIn(f, DocumentOf(inObject))

ObjectTags(f, inObject, options) ==
    IF options.caseInsensitive THEN LowerAll(GetTagsIn(f, DocumentOf(inObject)))
    ELSE GetTagsIn(f, DocumentOf(inObject))

MatchedTags_ObjectSide(objectTags, inTestTags) ==
    {j \in 1..Len(objectTags) :
        \E i \in 1..Len(inTestTags) : RegExpTest(inTestTags[i], objectTags[j])}

\* inTestTags.filter(testTag => objectTags.filter(tag => testTag.test(tag)).length)
MatchedTags(objectTags, inTestTags) ==
    {i \in 1..Len(inTestTags) :
        \E j \in 1..Len(objectTags) : RegExpTest(inTestTags[i], objectTags[j])}

TestObject_AnyIsAll(f, inObject, inTestTags, options) ==
    LET objectTags == ObjectTags(f, inObject, options)
        matchedTags == Cardinality(MatchedTags(objectTags, inTestTags))
    IN  IF options.matchExactly
        THEN matchedTags = Len(inTestTags) /\ Len(objectTags) = Len(inTestTags)
        ELSE matchedTags >= Len(inTestTags)

TestObject_ExactNoSize(f, inObject, inTestTags, options) ==
    LET objectTags == ObjectTags(f, inObject, options)
        matchedTags == Cardinality(MatchedTags(objectTags, inTestTags))
    IN  IF options.matchAny THEN matchedTags > 0
        ELSE IF options.matchExactly THEN matchedTags = Len(inTestTags)
        ELSE matchedTags >= Len(inTestTags)

TestObject_EmptyIsNone(f, inObject, inTestTags, options) ==
    LET objectTags == ObjectTags(f, inObject, options)
        matchedTags == Cardinality(MatchedTags(objectTags, inTestTags))
    IN  IF options.matchAny THEN matchedTags > 0
        ELSE IF options.matchExactly
             THEN matchedTags = Len(inTestTags) /\ Len(objectTags) = Len(inTestTags)
        ELSE matchedTags >= Len(inTestTags) /\ Len(inTestTags) > 0

\* Tagger._testObject
TestObject(f, inObject, inTestTags, options) ==
    LET objectTags == ObjectTags(f, inObject, options)
        matchedTags == Cardinality(MatchedTags(objectTags, inTestTags))
    IN  IF options.matchAny THEN matchedTags > 0
        ELSE IF options.matchExactly
             THEN matchedTags = Len(inTestTags) /\ Len(objectTags) = Len(inTestTags)
        ELSE matchedTags >= Len(inTestTags)

\* options.objects.filter(obj => this._testObject(obj, inTestTags, options))
RECURSIVE Passing(_, _, _, _)
Passing(f, objects, inTestTags, options) ==
    IF objects = <<>> THEN <<>>
    ELSE (IF TestObject(f, Head(objects), inTestTags, options)
          THEN <<Head(objects)>> ELSE <<>>)
            \o Passing(f, Tail(objects), inTestTags, options)

\* Tagger._testObjectsTags: the objects that are not in options.ignore and
\* pass, in the order of the list
TestObjectsTags(f, objects, inTestTags, options) ==
    Passing(f, Without(objects, Range(options.ignore)), inTestTags, options)

\* Tagger._getObjectsFromScene: the documents of the scene
SceneObjects(sc, sceneId) == sc[sceneId]

\* Tagger._testTagsOnAllObjectsFromAllScenes: the non-empty lists, by scene id
TestTagsOnAllObjectsFromAllScenes(f, sc, inTestTags, options) ==
    LET found == [id \in Range(SceneIds) |->
                    TestObjectsTags(f, SceneObjects(sc, id), inTestTags, options)]
    IN  [id \in {i \in Range(SceneIds) : Len(found[i]) > 0} |-> found[id]]

Threw == [error |-> TRUE, objects |-> <<>>, byScene |-> <<>>]
Returned(objects) == [error |-> FALSE, objects |-> objects, byScene |-> <<>>]
ReturnedByScene(lists) == [error |-> FALSE, objects |-> <<>>, byScene |-> lists]

ModesExclude_Never(options) == FALSE

\* options.matchAny && options.matchExactly
ModesExclude(options) == options.matchAny /\ options.matchExactly

\* Tagger._getObjectsByTags; objects is <<>> when options.objects is not given
GetObjectsByTags(f, sc, inTags, options, objects) ==
    IF ModesExclude(options) THEN Threw
    ELSE LET providedTags == CompileAll(ValidateTags(inTags), options.caseInsensitive)
         IN  IF options.allScenes
             THEN ReturnedByScene(
                    TestTagsOnAllObjectsFromAllScenes(f, sc, providedTags, options))
             ELSE IF options.sceneId \notin Range(SceneIds) THEN Threw
             ELSE LET tested == IF objects = <<>>
                                THEN SceneObjects(sc, options.sceneId)
                                ELSE objects
                  IN  Returned(TestObjectsTags(f, tested, providedTags, options))

QueryOptions == [matchAny |-> query.matchAny, matchExactly |-> query.matchExactly,
                 caseInsensitive |-> query.caseInsensitive,
                 ignore |-> query.ignore, allScenes |-> query.allScenes,
                 sceneId |-> query.sceneId]

\* Tagger.getByTag(query.tags, options)
GetByTag ==
    /\ result.op = "none"
    /\ LET found == GetObjectsByTags(flags, scenes, query.tags, QueryOptions, <<>>)
       IN  result' = [op |-> "getByTag", of |-> <<>>, error |-> found.error,
                      objects |-> found.objects, byScene |-> found.byScene,
                      has |-> FALSE]
    /\ UNCHANGED <<flags, before, lastCall, query, scenes, temporaryIds, nextId,
                   tasks, pending>>

\* Tagger.hasTags(inObjects, query.tags, options): the length of a map of
\* scenes is undefined, which is not greater than 0
HasTags(inObjects) ==
    /\ result.op = "none"
    /\ LET found == GetObjectsByTags(flags, scenes, query.tags, QueryOptions, inObjects)
       IN  result' = [op |-> "hasTags", of |-> inObjects, error |-> found.error,
                      objects |-> found.objects, byScene |-> found.byScene,
                      has |-> ~query.allScenes /\ Len(found.objects) > 0]
    /\ UNCHANGED <<flags, before, lastCall, query, scenes, temporaryIds, nextId,
                   tasks, pending>>

\* the tags stored on the entities when a query starts, and the query tags
TagPool == {<<"a">>, <<"A">>, <<"a", "b">>}
PatternPool == {<<"a">>, <<"A">>, <<"a", "*">>}

StoredFlags ==
    {Unset} \cup {Stored(tags) : tags \in
                    {s \in SeqsUpTo(TagPool, MaxStored) \ {<<>>} : NoDuplicates(s)}}

Queries ==
    [tags : {ArrayInput(a) : a \in SeqsUpTo(PatternPool, MaxQuery)},
     matchAny : BOOLEAN, matchExactly : BOOLEAN, caseInsensitive : BOOLEAN,
     ignore : {<<>>}, allScenes : {FALSE}, sceneId : {CanvasId}]

\* a query against entities carrying any tags the mutation calls can store
InitQuery ==
    /\ flags \in [Entities -> StoredFlags]
    /\ before = flags
    /\ lastCall = NoCall
    /\ query \in Queries
    /\ result = NoResult
    /\ scenes = OneScene
    /\ temporaryIds = NoIds
    /\ nextId = 0
    /\ tasks = NoTasks
    /\ pending = <<>>

NextQuery ==
    \/ GetByTag
    \/ \E inObject \in Entities : HasTags(<<inObject>>)

SpecQuery == InitQuery /\ [][NextQuery]_vars

\* ------------------------------------------- one query tag against one tag
\* the characters of stored tags and of string query tags
TagChars == {"a", "A", "b", "."}
PatternChars == {"a", "A", ".", "*"}

MatchTags == SeqsUpTo(TagChars, MaxTagLen) \ {<<>>}
MatchPatterns == SeqsUpTo(PatternChars, MaxPatternLen) \ {<<>>}

\* the sources of the RegExp objects handed to a query
RegExpPool == {<<"A">>, <<"^", "a", "$">>, <<"a", ".">>}

MatchQueries ==
    [tags : {StringInput(q) : q \in MatchPatterns}
                \cup {RegExpInput(source) : source \in RegExpPool},
     matchAny : {FALSE}, matchExactly : {FALSE}, caseInsensitive : BOOLEAN,
     ignore : {<<>>}, allScenes : {FALSE}, sceneId : {CanvasId}]

\* a query of one tag against one entity carrying one tag and one carrying none
InitMatch ==
    /\ \E t \in MatchTags :
            flags = [e \in Entities |-> IF e = "e1" THEN Stored(<<t>>) ELSE Unset]
    /\ before = flags
    /\ lastCall = NoCall
    /\ query \in MatchQueries
    /\ result = NoResult
    /\ scenes = OneScene
    /\ temporaryIds = NoIds
    /\ nextId = 0
    /\ tasks = NoTasks
    /\ pending = <<>>

SpecMatch == InitMatch /\ [][NextQuery]_vars

\* ------------------------------------------- queries over several scenes
\* every document lies in one of the scenes
Placements ==
    {[id \in Range(SceneIds) |->
        (IF at["e1"] = id THEN <<"e1">> ELSE <<>>)
            \o (IF at["e2"] = id THEN <<"e2">> ELSE <<>>)] :
        at \in [Entities -> Range(SceneIds)]}

SceneFlags == {Unset, Stored(<< <<"a">> >>), Stored(<< <<"b">> >>)}

\* options.ignore: Documents and PlaceableObjects
IgnoreLists == SeqsUpTo(Handles, MaxIgnore)

\* options.sceneId: the id of a scene, or of no scene
SceneIdInputs == Range(SceneIds) \cup {"s3"}

SceneQueries ==
    [tags : {StringInput(<<"a">>), StringInput(<<"*">>)},
     matchAny : {FALSE}, matchExactly : {FALSE}, caseInsensitive : {FALSE},
     ignore : IgnoreLists, allScenes : BOOLEAN, sceneId : SceneIdInputs]

InitScenes ==
    /\ flags \in [Entities -> SceneFlags]
    /\ before = flags
    /\ lastCall = NoCall
    /\ query \in SceneQueries
    /\ result = NoResult
    /\ scenes \in Placements
    /\ temporaryIds = NoIds
    /\ nextId = 0
    /\ tasks = NoTasks
    /\ pending = <<>>

SpecScenes == InitScenes /\ [][NextQuery]_vars

\* ----------------------------------------------------------- the tag rules
\* the placeholders of TaggerHandler.rules
Counter == <<"{", "#", "}">>
UniqueId == <<"{", "i", "d", "}">>

\* tag.match(regx) for the RegExp of a placeholder
Contains(s, sub) ==
    \E k \in 0..(Len(s) - Len(sub)) : SubSeq(s, k + 1, k + Len(sub)) = sub

\* tag.replace(regx, by): regx is global, every placeholder is replaced
RECURSIVE ReplaceEach(_, _, _)
ReplaceEach(s, sub, by) ==
    IF Len(s) < Len(sub) THEN s
    ELSE IF StartsWith(s, sub) THEN by \o ReplaceEach(Drop(s, Len(sub)), sub, by)
    ELSE <<Head(s)>> \o ReplaceEach(Tail(s), sub, by)

\* String(n)
RECURSIVE Decimal(_)
Decimal(n) ==
    IF n < 10 THEN <<Digits[n + 1]>>
    ELSE Decimal(n \div 10) \o <<Digits[(n % 10) + 1]>>

DigitValue(c) == CHOOSE d \in 0..9 : Digits[d + 1] = c

\* Number(s) of a string of digits
RECURSIVE NumberOf(_)
NumberOf(s) ==
    IF s = <<>> THEN 0
    ELSE NumberOf(SubSeq(s, 1, Len(s) - 1)) * 10 + DigitValue(s[Len(s)])

Max(S) == CHOOSE n \in S : \A m \in S : m <= n
Min(S) == CHOOSE n \in S : \A m \in S : n <= m

\* new RegExp("^" + tag.replace(regx, "([1-9]+[0-9]*)") + "$")
FindTag(tag) == <<"^">> \o ReplaceEach(tag, Counter, NumberGroup) \o <<"$">>

\* tag.match(findTag)[1]: what the first group holds when findTag matches tag
\* (the text before the group is one character per pattern character)
FirstGroup(findTag, tag) ==
    LET at == Min({k \in 1..Len(findTag) : StartsWith(Drop(findTag, k - 1), NumberGroup)})
        rest == Drop(tag, at - 2)
        post == Drop(findTag, at - 1 + Len(NumberGroup))
        spans == {k \in 1..Len(rest) :
                    IsNumber(SubSeq(rest, 1, k)) /\ MatchHere(post, Drop(rest, k))}
    IN  SubSeq(rest, 1, Max(spans))

\* tags.find(tag => tag.match(findTag))
FirstMatching(tags, findTag) ==
    tags[Min({j \in 1..Len(tags) : RegExpTest(findTag, tags[j])})]

FreeNumber_AfterMax(numbers) == Max(Range(numbers)) + 1

\* the loop over 1..Math.max(...numbers) + 1: the first i not in numbers
FreeNumber(numbers) ==
    LET length == Max(Range(numbers)) + 1
    IN  Min({i \in 1..length : ~Includes(numbers, i)})

\* the options of a query that gives none
DefaultOptions ==
    [matchAny |-> FALSE, matchExactly |-> FALSE, caseInsensitive |-> FALSE,
     ignore |-> <<>>, allScenes |-> FALSE, sceneId |-> CanvasId]

\* the number each found document counts for: that of its first matching tag
NumbersOf(f, existingDocuments, findTag) ==
    [i \in 1..Len(existingDocuments) |->
        NumberOf(FirstGroup(findTag,
                    FirstMatching(GetTagsIn(f, existingDocuments[i]), findTag)))]

\* TaggerHandler.rules["{#}"]
CounterRule(f, sc, tag) ==
    LET findTag == FindTag(tag)
        existingDocuments ==
            GetObjectsByTags(f, sc, RegExpInput(findTag), DefaultOptions, <<>>).objects
        numbers == NumbersOf(f, existingDocuments, findTag)
    IN  IF Len(existingDocuments) = 0 THEN ReplaceEach(tag, Counter, Decimal(1))
        ELSE ReplaceEach(tag, Counter, Decimal(FreeNumber(numbers)))

\* randomID(): an id no earlier call returned
RandomID(n) == <<"r">> \o Decimal(n)

\* what the rules thread through: the tags resolved so far, temporaryIds and
\* the number of ids handed out
Applied(tags, ids, next) == [tags |-> tags, ids |-> ids, next |-> next]

\* TaggerHandler.rules["{id}"] for the tag at position index (from 1): the id
\* at that position of temporaryIds[tag], or a new id pushed to the list
UniqueIdRule(st, tag, index) ==
    LET known == IF tag \in DOMAIN st.ids THEN st.ids[tag] ELSE <<>>
    IN  IF index <= Len(known)
        THEN Applied(Append(st.tags, ReplaceEach(tag, UniqueId, known[index])),
                     st.ids, st.next)
        ELSE LET id == RandomID(st.next + 1)
             IN  Applied(Append(st.tags, ReplaceEach(tag, UniqueId, id)),
                         [t \in DOMAIN st.ids \cup {tag} |->
                            IF t = tag THEN Append(known, id) ELSE st.ids[t]],
                         st.next + 1)

\* the callback of tags.map in TaggerHandler.applyRules: "{#}" is applied
\* before "{id}", each if the tag as given holds its placeholder
RuleTag(f, sc, st, tag, index) ==
    LET counted == IF Contains(tag, Counter) THEN CounterRule(f, sc, tag) ELSE tag
    IN  IF Contains(tag, UniqueId) THEN UniqueIdRule(st, counted, index)
        ELSE Applied(Append(st.tags, counted), st.ids, st.next)

RECURSIVE RuleTagsFrom(_, _, _, _, _)
RuleTagsFrom(f, sc, st, tags, index) ==
    IF index > Len(tags) THEN st
    ELSE RuleTagsFrom(f, sc, RuleTag(f, sc, st, tags[index], index), tags, index + 1)

\* TaggerHandler.applyRules
ApplyRules(f, sc, ids, next, tags) ==
    RuleTagsFrom(f, sc, Applied(<<>>, ids, next), ValidateTags(ArrayInput(tags)), 1)

\* the program state the calls with rules change
Program(f, ids, next) == [f |-> f, ids |-> ids, next |-> next]

ApplyRulesOptions == UpdateOptions(FALSE, <<>>, FALSE, TRUE, FALSE, TRUE)

\* one pass of the loop of Tagger._updateTags with applyRules
UpdateObjectWithRules(p, sc, obj, o) ==
    LET tags == NewTags(SetOf(GetTagsIn(p.f, obj)), o)
        applied == ApplyRules(p.f, sc, p.ids, p.next, tags)
    IN  Program([p.f EXCEPT ![obj] = WrittenFlag(applied.tags, o)],
                applied.ids, applied.next)

\* Tagger._updateTags with applyRules: the entities in list order
RECURSIVE UpdateTagsWithRules(_, _, _, _)
UpdateTagsWithRules(p, sc, inObjects, o) ==
    IF inObjects = <<>> THEN p
    ELSE UpdateTagsWithRules(UpdateObjectWithRules(p, sc, Head(inObjects), o),
                             sc, Tail(inObjects), o)

\* the documents that exist
Existing(sc) == UNION {Range(sc[id]) : id \in Range(SceneIds)}

\* Tagger.applyTagRules(inObjects)
ApplyTagRules(inObjects) ==
    /\ Range(inObjects) \subseteq Existing(scenes)
    /\ \E p \in {UpdateTagsWithRules(Program(flags, temporaryIds, nextId), scenes,
                                     inObjects, ApplyRulesOptions)} :
            /\ p.next <= MaxIds
            /\ flags' = p.f
            /\ temporaryIds' = p.ids
            /\ nextId' = p.next
    /\ before' = flags
    /\ lastCall' = Called("applyTagRules", inObjects, <<>>)
    /\ UNCHANGED <<query, result, scenes, tasks, pending>>

\* the preCreate hook of a document dropped on the canvas scene with the
\* given tags in its data (TaggerHandler.preCreateApplyTags), and its
\* creation; with the dropNoRules key down the tags are left as they are
PreCreateApplyTags(document, tags, dropNoRules) ==
    /\ document \notin Existing(scenes)
    /\ IF dropNoRules
       THEN /\ flags' = [flags EXCEPT ![document] = Stored(tags)]
            /\ lastCall' = Called("createNoRules", <<document>>, tags)
            /\ UNCHANGED <<temporaryIds, nextId>>
       ELSE \E applied \in {ApplyRules(flags, scenes, NoIds, nextId, tags)} :
                /\ applied.next <= MaxIds
                /\ flags' = [flags EXCEPT ![document] = Stored(applied.tags)]
                /\ temporaryIds' = NoIds
                /\ nextId' = applied.next
                /\ lastCall' = Called("create", <<document>>, tags)
    /\ before' = flags
    /\ scenes' = [scenes EXCEPT ![CanvasId] = Append(@, document)]
    /\ UNCHANGED <<query, result, tasks, pending>>

\* the tags of the documents when rules are applied: numbered tags and tags
\* with a placeholder
RuleTagPool ==
    {<<"a", "1">>, <<"a", "3">>, <<"a">> \o Counter, <<"x">> \o UniqueId}

RuleFlags ==
    {Unset} \cup {Stored(tags) : tags \in
                    {s \in SeqsUpTo(RuleTagPool, MaxRuleTags) \ {<<>>} : NoDuplicates(s)}}

\* the tags in the data of a created document
CreateTags ==
    {<< <<"a">> \o Counter >>, << <<"x">> \o UniqueId >>,
     << <<"a">> \o Counter, <<"x">> \o UniqueId >>}

\* the canvas scene holds no document, e1, or e1 and e2
InitRules ==
    /\ scenes \in {[id \in Range(SceneIds) |-> IF id = CanvasId THEN on ELSE <<>>] :
                        on \in {<<>>, <<"e1">>, <<"e1", "e2">>}}
    /\ flags \in [Entities -> RuleFlags]
    /\ \A e \in Entities \ Existing(scenes) : flags[e] = Unset
    /\ before = flags
    /\ lastCall = NoCall
    /\ query = NoQuery
    /\ result = NoResult
    /\ temporaryIds = NoIds
    /\ nextId = 0
    /\ tasks = NoTasks
    /\ pending = <<>>

NextRules ==
    \/ \E inObjects \in ObjectLists : ApplyTagRules(inObjects)
    \/ \E document \in Entities, tags \in CreateTags, dropNoRules \in BOOLEAN :
            PreCreateApplyTags(document, tags, dropNoRules)

SpecRules == InitRules /\ [][NextRules]_vars

\* ------------------------------------------------ queries that name no tag
\* tag inputs that validate to the empty list, and one that does not
EmptyQueries ==
    [tags : {StringInput(<<>>), StringInput(<<",">>), StringInput(<<" ">>),
             StringInput(<<" ", ",">>), ArrayInput(<<>>), ArrayInput(<< <<>> >>),
             ArrayInput(<< <<" ">> >>), StringInput(<<"a">>)},
     matchAny : BOOLEAN, matchExactly : BOOLEAN, caseInsensitive : BOOLEAN,
     ignore : IgnoreLists, allScenes : {FALSE}, sceneId : {CanvasId}]

\* the flag of an entity: unset, an empty list (applyTagRules stores one), or
\* tags
InitEmptyQuery ==
    /\ flags \in [Entities -> {Unset, Stored(<<>>), Stored(<< <<"a">> >>)}]
    /\ before = flags
    /\ lastCall = NoCall
    /\ query \in EmptyQueries
    /\ result = NoResult
    /\ scenes = OneScene
    /\ temporaryIds = NoIds
    /\ nextId = 0
    /\ tasks = NoTasks
    /\ pending = <<>>

SpecEmptyQuery == InitEmptyQuery /\ [][NextQuery]_vars

\* ------------------------------------------- rules away from the canvas scene
\* the preCreate hook of a document created on the scene sceneId with the
\* given tags in its data, and its creation there
CreateInScene(document, sceneId, tags) ==
    /\ document \notin Existing(scenes)
    /\ \E applied \in {ApplyRules(flags, scenes, NoIds, nextId, tags)} :
            /\ applied.next <= MaxIds
            /\ flags' = [flags EXCEPT ![document] = Stored(applied.tags)]
            /\ temporaryIds' = NoIds
            /\ nextId' = applied.next
    /\ before' = flags
    /\ lastCall' = Called("create", <<document>>, tags)
    /\ scenes' = [scenes EXCEPT ![sceneId] = Append(@, document)]
    /\ UNCHANGED <<query, result, tasks, pending>>

\* each document carries at most one tag: a numbered tag or a template
SceneRuleFlags ==
    {Unset} \cup {Stored(<<tag>>) : tag \in {<<"a", "1">>, <<"a", "2">>, <<"a">> \o Counter}}

\* e1 and e2 are each on either scene or do not exist yet ("none")
InitRuleScenes ==
    /\ \E home \in [Entities -> Range(SceneIds) \cup {"none"}] :
            scenes = [id \in Range(SceneIds) |->
                        Without(<<"e1", "e2">>, {e \in Entities : home[e] # id})]
    /\ flags \in [Entities -> SceneRuleFlags]
    /\ \A e \in Entities \ Existing(scenes) : flags[e] = Unset
    /\ before = flags
    /\ lastCall = NoCall
    /\ query = NoQuery
    /\ result = NoResult
    /\ temporaryIds = NoIds
    /\ nextId = 0
    /\ tasks = NoTasks
    /\ pending = <<>>

NextRuleScenes ==
    \/ \E inObjects \in ObjectLists : ApplyTagRules(inObjects)
    \/ \E document \in Entities, sceneId \in Range(SceneIds), tags \in CreateTags :
            CreateInScene(document, sceneId, tags)

SpecRuleScenes == InitRuleScenes /\ [][NextRuleScenes]_vars

\* ------------------------------------------------- the calls, pass by pass
\* a null or undefined entry of an entity list; a tag input that is a number,
\* and an array element that is a number
Null == "null"
NumberInput == [kind |-> "number", s |-> <<>>, a |-> <<>>]
NumberItem == <<"Number">>

\* the check of Tagger._validateObjects: no entry is falsy
ValidObjects(inObjects) == \A i \in 1..Len(inObjects) : inObjects[i] # Null

ValidTags_TypeOnly(inTags) == inTags.kind \in {"string", "regexp", "array"}

\* the checks of Tagger._validateTags: a string, a RegExp or an array whose
\* elements are strings or RegExps
ValidTags(inTags) ==
    /\ inTags.kind \in {"string", "regexp", "array"}
    /\ inTags.kind = "array" =>
            \A i \in 1..Len(inTags.a) : inTags.a[i] # NumberItem

\* the calls that take inTags, and the options a call hands to _updateTags
TakesTags(op) == op \in {"setTags", "toggleTags", "addTags", "removeTags"}

OptionsOf(op, providedTags) ==
    CASE op = "setTags" -> SetOptions(providedTags)
      [] op = "toggleTags" -> ToggleOptions(providedTags)
      [] op = "addTags" -> AddOptions(providedTags)
      [] op = "removeTags" -> RemoveOptions(providedTags)
      [] op = "clearAllTags" -> ClearOptions
      [] op = "applyTagRules" -> ApplyRulesOptions

\* the calls that await a write
Suspended == {k \in 1..Len(tasks) : tasks[k].status = "waiting"}

\* a call: its arguments, the validated tags, the position in the entity
\* list of the pass it is at, and whether it threw on its arguments
\* ("threw"), awaits a write ("waiting"), returned ("done") or was rejected
\* with the error of a write ("failed"); met keeps the calls that awaited a
\* write when this one was made
Task(op, inObjects, inTags, providedTags, status) ==
    [op |-> op, objs |-> inObjects, inTags |-> inTags, tags |-> providedTags,
     at |-> 1, status |-> status, met |-> Suspended]

\* obj.setFlag / obj.unsetFlag on its way to the host: Unset for unsetFlag
Write(task, obj, flag) == [task |-> task, obj |-> obj, flag |-> flag]

\* one pass of either loop of Tagger._updateTags: p.f[obj] is what it writes
PassOf(p, sc, obj, o) ==
    IF ~o.given /\ ~o.applyRules
    THEN Program([p.f EXCEPT ![obj] = Unset], p.ids, p.next)
    ELSE IF o.applyRules THEN UpdateObjectWithRules(p, sc, obj, o)
    ELSE Program(UpdateObject(p.f, obj, o), p.ids, p.next)

PassObject_LastFirst(t) == t.objs[Len(t.objs) + 1 - t.at]

\* for (let obj of inObjects): the entity of the pass the call is at
PassObject(t) == t.objs[t.at]

\* the call t, of index k, awaits the write of what the pass on obj computed
Issued(k, t, obj, pass) ==
    [task |-> [t EXCEPT !.status = "waiting"],
     writes |-> << Write(k, obj, pass.f[obj]) >>,
     ids |-> pass.ids, next |-> pass.next]

\* the call k runs until its next await: after the last entity it returns,
\* else it computes the tags of the next entity and issues the write
Resume(k, t, p, sc) ==
    IF t.at > Len(t.objs)
    THEN [task |-> [t EXCEPT !.status = "done"], writes |-> <<>>,
          ids |-> p.ids, next |-> p.next]
    ELSE Issued(k, t, PassObject(t),
                PassOf(p, sc, PassObject(t), OptionsOf(t.op, t.tags)))

\* a mutation is called while fewer than limit calls were made: the
\* arguments are validated and, if they pass, the call runs to its first await
Call(limit, op, inObjects, inTags) ==
    /\ Len(tasks) < limit
    /\ IF ValidObjects(inObjects) /\ (TakesTags(op) => ValidTags(inTags))
       THEN \E r \in {Resume(Len(tasks) + 1,
                             Task(op, inObjects, inTags,
                                  IF TakesTags(op) THEN ValidateTags(inTags) ELSE <<>>,
                                  "running"),
                             Program(flags, temporaryIds, nextId), scenes)} :
                /\ r.next <= MaxIds
                /\ tasks' = Append(tasks, r.task)
                /\ pending' = pending \o r.writes
                /\ temporaryIds' = r.ids
                /\ nextId' = r.next
       ELSE /\ tasks' = Append(tasks, Task(op, inObjects, inTags, <<>>, "threw"))
            /\ UNCHANGED <<pending, temporaryIds, nextId>>
    /\ UNCHANGED <<flags, before, lastCall, query, result, scenes>>

\* the host applies the oldest write and resolves its promise: the call that
\* awaited it goes on with the next entity
Acknowledge ==
    /\ pending # <<>>
    /\ \E w \in {Head(pending)} :
        \E r \in {Resume(w.task, [tasks[w.task] EXCEPT !.at = @ + 1],
                         Program([flags EXCEPT ![w.obj] = w.flag], temporaryIds, nextId),
                         scenes)} :
            /\ r.next <= MaxIds
            /\ flags' = [flags EXCEPT ![w.obj] = w.flag]
            /\ tasks' = [tasks EXCEPT ![w.task] = r.task]
            /\ pending' = Tail(pending) \o r.writes
            /\ temporaryIds' = r.ids
            /\ nextId' = r.next
    /\ UNCHANGED <<before, lastCall, query, result, scenes>>

\* the host refuses the oldest write: the await throws and the call is
\* rejected with that error
Reject ==
    /\ pending # <<>>
    /\ tasks' = [tasks EXCEPT ![Head(pending).task].status = "failed"]
    /\ pending' = Tail(pending)
    /\ UNCHANGED <<flags, before, lastCall, query, result, scenes, temporaryIds, nextId>>

\* --------------------------------------------- one call with any arguments
\* one comma-separated piece or array element: empty, blank, a letter, a
\* letter between blanks
ArgPieces == {<<>>, <<" ">>, <<"a">>, <<" ", "b", " ">>}

\* inTags: strings, arrays of strings and numbers, a number, and the strings
\* "a,,b" and "a, b ,c"
ArgInputs ==
    {StringInput(Join(ps)) : ps \in SeqsUpTo(ArgPieces, MaxArgPieces) \ {<<>>}}
        \cup {ArrayInput(ps) : ps \in SeqsUpTo(ArgPieces \cup {NumberItem}, MaxArgPieces)}
        \cup {NumberInput,
              StringInput(<<"a", ",", ",", "b">>),
              StringInput(<<"a", ",", " ", "b", " ", ",", "c">>)}

\* inObjects: documents, with or without a null entry
ArgObjects ==
    {<<"e1">>, <<"e1", "e2">>, <<Null>>, <<"e1", Null>>, <<Null, "e1">>}

\* the flags the calls can leave on a document
ArgFlags ==
    {Unset} \cup {Stored(tags) : tags \in
                    {s \in SeqsUpTo({<<l>> : l \in Letters}, Cardinality(Letters)) \ {<<>>} : NoDuplicates(s)}}

\* e1 carries any tags the calls can leave, e2 none or one
InitCalls ==
    /\ flags \in [Entities -> ArgFlags]
    /\ flags["e2"] \in {Unset, Stored(<< <<"b">> >>)}
    /\ before = flags
    /\ lastCall = NoCall
    /\ query = NoQuery
    /\ result = NoResult
    /\ scenes = OneScene
    /\ temporaryIds = NoIds
    /\ nextId = 0
    /\ tasks = NoTasks
    /\ pending = <<>>

\* the one call: any of the six, with any arguments; clearAllTags and
\* applyTagRules take no tags
FirstCall ==
    /\ tasks = NoTasks
    /\ \E op \in {"setTags", "toggleTags", "addTags", "removeTags",
                   "clearAllTags", "applyTagRules"}, inObjects \in ArgObjects :
            \E inTags \in IF TakesTags(op) THEN ArgInputs ELSE {ArrayInput(<<>>)} :
                Call(1, op, inObjects, inTags)

\* one call, then the host answers its writes
NextCalls ==
    \/ FirstCall
    \/ Acknowledge
    \/ Reject

SpecCalls == InitCalls /\ [][NextCalls]_vars

\* ---------------------------------------------- the tag inputs of a query
\* inTags: strings, arrays of strings and RegExps, a RegExp, and the strings
\* "a,,b" and "a, b ,c"
QueryInputs ==
    {StringInput(Join(ps)) : ps \in SeqsUpTo(ArgPieces, MaxArgPieces) \ {<<>>}}
        \cup {ArrayInput(ps) :
                ps \in SeqsUpTo(ArgPieces \cup {RegExpOf(<<"a">>), RegExpOf(<<" ">>)},
                                MaxArgPieces)}
        \cup {RegExpInput(<<"a">>), RegExpInput(<<" ">>),
              StringInput(<<"a", ",", ",", "b">>),
              StringInput(<<"a", ",", " ", "b", " ", ",", "c">>)}

InitInputs ==
    /\ flags \in [Entities -> {Unset, Stored(<< <<"a">>, <<"b">>, <<"c">> >>)}]
    /\ before = flags
    /\ lastCall = NoCall
    /\ query \in [tags : QueryInputs,
                  matchAny : BOOLEAN, matchExactly : {FALSE}, caseInsensitive : {FALSE},
                  ignore : {<<>>}, allScenes : {FALSE}, sceneId : {CanvasId}]
    /\ result = NoResult
    /\ scenes = OneScene
    /\ temporaryIds = NoIds
    /\ nextId = 0
    /\ tasks = NoTasks
    /\ pending = <<>>

SpecInputs == InitInputs /\ [][NextQuery]_vars

\* ------------------------------------------------ calls running together
InitRace ==
    /\ flags \in [Entities -> {Unset, Stored(<< <<"c">> >>)}]
    /\ before = flags
    /\ lastCall = NoCall
    /\ query = NoQuery
    /\ result = NoResult
    /\ scenes = OneScene
    /\ temporaryIds = NoIds
    /\ nextId = 0
    /\ tasks = NoTasks
    /\ pending = <<>>

\* addTags on e1 alone or after e2, with one tag or two: a call can be made
\* while others await their writes
NextRace ==
    \/ \E inObjects \in {<<"e1">>, <<"e2", "e1">>},
          inTags \in {ArrayInput(<< <<"a">> >>), ArrayInput(<< <<"b">> >>),
                      StringInput(<<"a", ",", "b">>)} :
            Call(MaxTasks, "addTags", inObjects, inTags)
    \/ Acknowledge
    \/ Reject

SpecRace == InitRace /\ [][NextRace]_vars

\* ------------------------------------------------ creations running together
\* the tags in the data of a document that is created
RaceCreateTags ==
    {<< <<"a">> \o Counter >>,
     << <<"a", "2">>, <<"a">> \o Counter >>,
     << <<"a">> \o Counter, <<"x">> \o UniqueId >>}

\* the preCreate hook of a document dropped on the canvas scene runs
\* (TaggerHandler.preCreateApplyTags) and the creation goes to the host: the
\* rules see the documents that exist now
PreCreate(document, tags) ==
    /\ document \notin Existing(scenes)
    /\ \A k \in 1..Len(tasks) : tasks[k].objs # <<document>>
    /\ \E applied \in {ApplyRules(flags, scenes, NoIds, nextId, tags)} :
            /\ applied.next <= MaxIds
            /\ tasks' = Append(tasks, Task("create", <<document>>, ArrayInput(tags),
                                           ValidateTags(ArrayInput(tags)), "waiting"))
            /\ pending' = Append(pending,
                                 Write(Len(tasks) + 1, document, Stored(applied.tags)))
            /\ temporaryIds' = NoIds
            /\ nextId' = applied.next
    /\ UNCHANGED <<flags, before, lastCall, query, result, scenes>>

\* the host creates the document of the oldest request: from now on the
\* queries find it
Created ==
    /\ pending # <<>>
    /\ \E w \in {Head(pending)} :
            /\ flags' = [flags EXCEPT ![w.obj] = w.flag]
            /\ scenes' = [scenes EXCEPT ![CanvasId] = Append(@, w.obj)]
            /\ tasks' = [tasks EXCEPT ![w.task].status = "done"]
    /\ pending' = Tail(pending)
    /\ UNCHANGED <<before, lastCall, query, result, temporaryIds, nextId>>

\* the canvas scene holds no document, or e1
InitCreate ==
    /\ scenes \in {[id \in Range(SceneIds) |-> IF id = CanvasId THEN on ELSE <<>>] :
                        on \in {<<>>, <<"e1">>}}
    /\ flags \in [Entities -> SceneRuleFlags]
    /\ \A e \in Entities \ Existing(scenes) : flags[e] = Unset
    /\ before = flags
    /\ lastCall = NoCall
    /\ query = NoQuery
    /\ result = NoResult
    /\ temporaryIds = NoIds
    /\ nextId = 0
    /\ tasks = NoTasks
    /\ pending = <<>>

NextCreate ==
    \/ \E document \in Entities, tags \in RaceCreateTags : PreCreate(document, tags)
    \/ Created

SpecCreate == InitCreate /\ [][NextCreate]_vars

\* ------------------------------------------------------------ properties
\* the tags of e as a set, read through getTags
TagSet(f, e) == Range(GetTagsIn(f, e))

Targets == Range(lastCall.objs)

\* C1: after setTags(e, T) the tags read back from e are, as a set, the
\* validated T, and the stored list holds no tag twice
C1_SetTagsRoundTrip ==
    lastCall.op = "setTags" =>
        \A e \in Targets :
            /\ TagSet(flags, e) = Range(lastCall.tags)
            /\ NoDuplicates(FlagOrEmpty(flags, e))

\* setTags with a list naming one tag twice has replaced other tags
C1_Witness ==
    /\ lastCall = Called("setTags", <<"e1">>, << <<"a">>, <<"a">> >>)
    /\ before["e1"] = Stored(<< <<"b">> >>)
    /\ flags["e1"] = Stored(<< <<"a">> >>)

\* C2: addTags stores the union of the existing and the given tags, with no
\* tag twice, and running the same addTags call again leaves every tag set
\* as it is
C2_AddTagsUnionIdempotent ==
    lastCall.op = "addTags" =>
        LET again == UpdateTags(flags, lastCall.objs, AddOptions(lastCall.tags))
        IN  \A e \in Targets :
                /\ TagSet(flags, e) = TagSet(before, e) \cup Range(lastCall.tags)
                /\ NoDuplicates(FlagOrEmpty(flags, e))
                /\ TagSet(again, e) = TagSet(flags, e)
                /\ NoDuplicates(FlagOrEmpty(again, e))

\* addTags has added one new tag to an entity that carried another; the
\* given list names a tag the entity already had
C2_Witness ==
    /\ lastCall = Called("addTags", <<"e1">>, << <<"a">>, <<"b">> >>)
    /\ before["e1"] = Stored(<< <<"a">> >>)
    /\ flags["e1"] = Stored(<< <<"a">>, <<"b">> >>)

\* C3: after removeTags(e, T) the tags of e are the tags it had minus T
C3_RemoveTagsDifference ==
    lastCall.op = "removeTags" =>
        /\ \A e \in Targets :
                TagSet(flags, e) = TagSet(before, e) \ Range(lastCall.tags)
        /\ \A e \in Entities \ Targets : flags[e] = before[e]

\* removeTags took b from an entity carrying a and b and left alone an entity
\* that did not carry b
C3_Witness ==
    /\ lastCall = Called("removeTags", <<"e1", "e2">>, << <<"b">> >>)
    /\ before["e1"] = Stored(<< <<"a">>, <<"b">> >>)
    /\ before["e2"] = Stored(<< <<"a">> >>)
    /\ flags["e1"] = Stored(<< <<"a">> >>)
    /\ flags["e2"] = Stored(<< <<"a">> >>)

\* C4: toggleTags leaves the symmetric difference of the entity's tags and
\* the given tags, and running the same toggleTags call again restores the
\* tags the entity had before the first one
C4_ToggleSelfInverse ==
    lastCall.op = "toggleTags" =>
        LET T == Range(lastCall.tags)
            again == UpdateTags(flags, lastCall.objs, ToggleOptions(lastCall.tags))
        IN  \A e \in Targets :
                /\ TagSet(flags, e) = (TagSet(before, e) \ T) \cup (T \ TagSet(before, e))
                /\ TagSet(again, e) = TagSet(before, e)

\* toggleTags has removed the only tags of an entity: the intermediate
\* result of the double toggle is empty
C4_Witness ==
    /\ lastCall = Called("toggleTags", <<"e1">>, << <<"a">>, <<"b">> >>)
    /\ before["e1"] = Stored(<< <<"b">>, <<"a">> >>)
    /\ flags["e1"] = Unset

\* C5: after clearAllTags every given entity has no flag, and getTags
\* returns the empty list for it
C5_ClearAllTagsUnsets ==
    lastCall.op = "clearAllTags" =>
        \A e \in Targets :
            /\ flags[e] = Unset
            /\ GetTags(e) = <<>>

\* clearAllTags has cleared two entities that carried tags
C5_Witness ==
    /\ lastCall = Called("clearAllTags", <<"e1", "e2">>, <<>>)
    /\ before["e1"] = Stored(<< <<"a">>, <<"b">> >>)
    /\ before["e2"] = Stored(<< <<"b">> >>)
    /\ flags["e1"] = Unset
    /\ flags["e2"] = Unset

\* C6: the flag of every entity is absent or holds a non-empty list
C6_UnsetOrNonEmpty ==
    \A e \in Entities : flags[e].present => Len(flags[e].value) > 0

\* removeTags has taken the last tag of an entity, whose flag is now absent
C6_Witness ==
    /\ lastCall = Called("removeTags", <<"e1">>, << <<"a">> >>)
    /\ before["e1"] = Stored(<< <<"a">> >>)
    /\ flags["e1"] = Unset

\* the compiled query tags, the objects the query tested and the tags each
\* was tested with
QueryPatterns == CompileAll(ValidateTags(query.tags), query.caseInsensitive)

Tested ==
    IF result.op = "hasTags" THEN Range(result.of)
    ELSE Range(SceneObjects(scenes, query.sceneId))

TestedTags(e) == ObjectTags(flags, e, QueryOptions)

Accepted(e) == Includes(result.objects, e)

\* the pattern matches at least one tag of e
MatchesSomeTag(pattern, e) ==
    \E j \in 1..Len(TestedTags(e)) : RegExpTest(pattern, TestedTags(e)[j])

\* the tag is matched by at least one query pattern
MatchedBySomePattern(tag) ==
    \E i \in 1..Len(QueryPatterns) : RegExpTest(QueryPatterns[i], tag)

EveryPatternMatches(e) ==
    \A i \in 1..Len(QueryPatterns) : MatchesSomeTag(QueryPatterns[i], e)

Answered == result.op # "none" /\ ~result.error

\* C7: with matchAny an entity is returned by getByTag, and accepted by
\* hasTags, iff at least one query pattern matches at least one of its tags
C7_MatchAny ==
    (Answered /\ query.matchAny) =>
        /\ \A e \in Tested :
                Accepted(e) <=>
                    \E i \in 1..Len(QueryPatterns) : MatchesSomeTag(QueryPatterns[i], e)
        /\ result.op = "hasTags" =>
                (result.has <=> \E e \in Tested : \E i \in 1..Len(QueryPatterns) :
                                    MatchesSomeTag(QueryPatterns[i], e))

\* getByTag with matchAny returned the entity matching one of two query tags
\* and not the entity matching none
C7_Witness ==
    /\ result.op = "getByTag"
    /\ query.matchAny
    /\ ~query.caseInsensitive
    /\ query.tags = ArrayInput(<< <<"a">>, <<"a", "*">> >>)
    /\ flags["e1"] = Stored(<< <<"A">>, <<"a", "b">> >>)
    /\ flags["e2"] = Stored(<< <<"A">> >>)
    /\ result.objects = <<"e1">>

\* C8: in the default mode an entity matches iff every query pattern matches
\* at least one of its tags, whatever other tags it carries
C8_MatchAll ==
    (Answered /\ ~query.matchAny /\ ~query.matchExactly) =>
        /\ \A e \in Tested : Accepted(e) <=> EveryPatternMatches(e)
        /\ result.op = "hasTags" =>
                (result.has <=> \E e \in Tested : EveryPatternMatches(e))

\* the default mode returned the entity carrying the query tag and one more
\* tag, and not the entity lacking the query tag
C8_Witness ==
    /\ result.op = "getByTag"
    /\ ~query.matchAny /\ ~query.matchExactly
    /\ ~query.caseInsensitive
    /\ query.tags = ArrayInput(<< <<"a">> >>)
    /\ flags["e1"] = Stored(<< <<"A">>, <<"a">> >>)
    /\ flags["e2"] = Stored(<< <<"A">> >>)
    /\ result.objects = <<"e1">>

C10_OnlyProvidedTags ==
    (result.op = "getByTag" /\ ~result.error /\ query.matchExactly) =>
        \A e \in Range(result.objects) :
            \A j \in 1..Len(TestedTags(e)) : MatchedBySomePattern(TestedTags(e)[j])

\* C11: a query asking for matchAny and matchExactly together fails with an
\* error: it returns no entity and hasTags gives no answer, whatever the
\* tags and the entities are
C11_BothModesRejected ==
    (result.op # "none" /\ query.matchAny /\ query.matchExactly) =>
        /\ result.error
        /\ result.objects = <<>>
        /\ result.byScene = <<>>
        /\ ~result.has

\* getByTag was called with both modes for a tag both entities carry
C11_Witness ==
    /\ result.op = "getByTag"
    /\ query.matchAny /\ query.matchExactly
    /\ query.tags = ArrayInput(<< <<"a">> >>)
    /\ flags["e1"] = Stored(<< <<"a">> >>)
    /\ flags["e2"] = Stored(<< <<"a">> >>)
    /\ result.error

\* the one tag of a one-tag query, as validated, and the string of a string
\* query as the query compares it
QueryTag == ValidateTags(query.tags)[1]

OneTagQuery == Len(ValidateTags(query.tags)) = 1

LiteralQuery == OneTagQuery /\ ~IsRegExp(QueryTag)

Cased(t) == IF query.caseInsensitive THEN ToLowerCase(t) ELSE t

\* C12: a string query tag without "*" matches a tag iff the tag is the same
\* string (compared in lower case under caseInsensitive): "." stands for a
\* dot only
C12_LiteralIsEquality ==
    (Answered /\ LiteralQuery /\ "*" \notin Range(QueryTag)) =>
        \A e \in Tested :
            Accepted(e) <=> Includes(TestedTags(e), Cased(QueryTag))

\* C13: the query p* matches exactly the tags that start with p
C13_StarIsPrefix ==
    (Answered /\ LiteralQuery /\ QueryTag[Len(QueryTag)] = "*") =>
        LET p == SubSeq(QueryTag, 1, Len(QueryTag) - 1)
        IN  "*" \notin Range(p) =>
                \A e \in Tested :
                    Accepted(e) <=>
                        \E j \in 1..Len(TestedTags(e)) :
                            StartsWith(TestedTags(e)[j], Cased(p))

\* the flags with every stored tag in lower case, and the query in lower case
LoweredFlags ==
    [e \in Entities |->
        IF flags[e].present THEN Stored(LowerAll(flags[e].value)) ELSE Unset]

LoweredTags == [query.tags EXCEPT !.s = ToLowerCase(query.tags.s)]

\* what the query answers with the other value of caseInsensitive
OtherCase(f, inTags) ==
    GetObjectsByTags(f, scenes, inTags,
                     [QueryOptions EXCEPT !.caseInsensitive = ~query.caseInsensitive],
                     result.of)

\* C14: for a string query tag, an entity matches under caseInsensitive iff
\* its tags in lower case match the query in lower case without the option;
\* without the option a tag that differs from the query in case only does
\* not match; a query leaves the stored tags as they are
C14_CaseInsensitive ==
    (Answered /\ LiteralQuery) =>
        /\ query.caseInsensitive =>
                result.objects = OtherCase(LoweredFlags, LoweredTags).objects
        /\ ~query.caseInsensitive =>
                \A e \in Tested :
                    (/\ GetTags(e) # <<QueryTag>>
                     /\ LowerAll(GetTags(e)) = <<ToLowerCase(QueryTag)>>)
                        => ~Accepted(e)
        /\ flags = before

\* query "A" with caseInsensitive has found the entity tagged "a", whose
\* flag still reads "a"
C14_Witness ==
    /\ result.op = "getByTag"
    /\ query.caseInsensitive
    /\ query.tags = StringInput(<<"A">>)
    /\ flags["e1"] = Stored(<< <<"a">> >>)
    /\ result.objects = <<"e1">>

\* C15: the entities a RegExp query tag matches are the same with
\* caseInsensitive true and with caseInsensitive false
C15_RegExpAsIs ==
    (Answered /\ OneTagQuery /\ IsRegExp(QueryTag)) =>
        result.objects = OtherCase(flags, query.tags).objects

\* the documents in the answer, and the documents options.ignore names by
\* either of their handles
Found(answer) ==
    Range(answer.objects)
        \cup UNION {Range(answer.byScene[id]) : id \in DOMAIN answer.byScene}

Ignored == {DocumentOf(h) : h \in Range(query.ignore)}

\* the answer to the same query without options.ignore
Unfiltered ==
    GetObjectsByTags(flags, scenes, query.tags,
                     [QueryOptions EXCEPT !.ignore = <<>>], result.of)

\* C16: no entity named in options.ignore is in the answer of a query, be it
\* a list or lists by scene, and every other entity is in the answer iff it
\* is in the answer of the query without options.ignore
C16_IgnoredNeverReturned ==
    Answered =>
        /\ Found(result) \cap Ignored = {}
        /\ \A e \in Entities \ Ignored : e \in Found(result) <=> e \in Found(Unfiltered)

\* the entities of a scene that match the query and are not ignored
Hits(id) ==
    LET ofScene == SceneObjects(scenes, id)
        keep == {e \in Range(ofScene) :
                    /\ e \notin Ignored
                    /\ TestObject(flags, e, QueryPatterns, QueryOptions)}
    IN  Without(ofScene, Range(ofScene) \ keep)

\* C17: with allScenes getByTag answers with lists by scene id: an id is
\* there iff an entity of that scene matches and is not ignored, its list is
\* the matching entities of that scene that are not ignored, and
\* options.sceneId changes nothing
C17_AllScenes ==
    (result.op = "getByTag" /\ query.allScenes) =>
        /\ ~result.error
        /\ DOMAIN result.byScene \subseteq Range(SceneIds)
        /\ \A id \in Range(SceneIds) :
                /\ id \in DOMAIN result.byScene <=> Hits(id) # <<>>
                /\ id \in DOMAIN result.byScene => result.byScene[id] = Hits(id)
        /\ \A other \in SceneIdInputs :
                GetObjectsByTags(flags, scenes, query.tags,
                                 [QueryOptions EXCEPT !.sceneId = other], <<>>).byScene
                    = result.byScene

\* the last call applied the rules; the entity it resolved first, against the
\* flags in before, and the tags it resolved for that entity
RulesApplied == lastCall.op \in {"applyTagRules", "create"}

FirstResolved == Head(lastCall.objs)

GivenTags ==
    IF lastCall.op = "create" THEN ValidateTags(ArrayInput(lastCall.tags))
    ELSE SetOf(GetTagsIn(before, FirstResolved))

\* a tag with the counter placeholder alone
IsCounterTemplate(tag) == Contains(tag, Counter) /\ ~Contains(tag, UniqueId)

Numbered(template, n) == ReplaceEach(template, Counter, Decimal(n))

\* the documents the counter rule searches, and the numbers of the template
\* a document carried when the call started
Scope == Range(SceneObjects(scenes, CanvasId))

UsedBy(e, template) ==
    {n \in 1..MaxNumber : Includes(GetTagsIn(before, e), Numbered(template, n))}

Used(template) == UNION {UsedBy(e, template) : e \in Scope}

\* C18: when no entity of the scene carries two tags of the template, the
\* counter rule replaces the placeholder by the smallest positive integer
\* that no entity of the scene uses with the template
C18_SmallestFreeNumber ==
    RulesApplied =>
        \A i \in 1..Len(GivenTags) :
            (/\ IsCounterTemplate(GivenTags[i])
             /\ \A e \in Scope : Cardinality(UsedBy(e, GivenTags[i])) <= 1)
                => flags[FirstResolved].value[i] =
                        Numbered(GivenTags[i],
                                 Min((1..(MaxNumber + 1)) \ Used(GivenTags[i])))

\* applyTagRules resolved a{#} on an entity that carries a1 while another
\* entity carries a3: the gap 2 is taken
C18_Witness ==
    /\ lastCall = Called("applyTagRules", <<"e1">>, <<>>)
    /\ before["e1"] = Stored(<< <<"a", "1">>, <<"a">> \o Counter >>)
    /\ before["e2"] = Stored(<< <<"a", "3">> >>)
    /\ flags["e1"] = Stored(<< <<"a", "1">>, <<"a", "2">> >>)

\* C19: the tag the counter rule produces is carried by no entity of the
\* scene when the rule is applied
C19_CounterUnique ==
    RulesApplied =>
        \A i \in 1..Len(GivenTags) :
            IsCounterTemplate(GivenTags[i]) =>
                \A e \in Scope :
                    ~Includes(GetTagsIn(before, e), flags[FirstResolved].value[i])

\* a tag holding an id of randomID
HasId(tag) == "r" \in Range(tag)

\* C20: no two entities carry the same tag made from an "{id}" template, and
\* between the calls temporaryIds holds no id
C20_IdsDoNotLeak ==
    /\ \A e1, e2 \in Entities :
            e1 # e2 =>
                \A tag \in TagSet(flags, e1) \cap TagSet(flags, e2) : ~HasId(tag)
    /\ temporaryIds = NoIds

\* C22: applyTagRules on an entity that has no tags leaves the flag of that
\* entity unset
C22_EmptyStaysUnset ==
    lastCall.op = "applyTagRules" =>
        \A e \in Targets : GetTagsIn(before, e) = <<>> => flags[e] = Unset

\* a tag with the id placeholder alone
IsIdTemplate(tag) == Contains(tag, UniqueId) /\ ~Contains(tag, Counter)

\* no id was handed out before the last call, so temporaryIds held no id when
\* it started
NoIdBefore == \A e \in Entities : \A tag \in TagSet(before, e) : ~HasId(tag)

\* the tags the last call resolved for the entity e
ResolvedFrom(e) == SetOf(GetTagsIn(before, e))

\* C27: while temporaryIds is not cleared, an "{id}" template resolved at the
\* same position of two tag lists gets the same id, and resolved at two
\* different positions it gets two different ids
C27_IdReuseByIndex ==
    (lastCall.op = "applyTagRules" /\ Len(lastCall.objs) = 2 /\ NoIdBefore) =>
        LET x == lastCall.objs[1]
            y == lastCall.objs[2]
        IN  \A i \in 1..Len(ResolvedFrom(x)), j \in 1..Len(ResolvedFrom(y)) :
                (/\ IsIdTemplate(ResolvedFrom(x)[i])
                 /\ ResolvedFrom(x)[i] = ResolvedFrom(y)[j])
                    => (i = j <=> flags[x].value[i] = flags[y].value[j])

\* the entities of the scene that holds the entity resolved first
HomeScope ==
    UNION {Range(SceneObjects(scenes, id)) :
                id \in {s \in Range(SceneIds) : FirstResolved \in Range(SceneObjects(scenes, s))}}

\* C21: the tag the counter rule produces for an entity is carried by no
\* entity of the scene that holds that entity, whichever scene that is
C21_UniqueInOwnScene ==
    RulesApplied =>
        \A i \in 1..Len(GivenTags) :
            IsCounterTemplate(GivenTags[i]) =>
                \A e \in HomeScope \ {FirstResolved} :
                    ~Includes(GetTagsIn(before, e), flags[FirstResolved].value[i])

\* what a query that names no tag says of an entity, by mode
EmptyQueryAccepts(e) ==
    IF query.matchAny THEN FALSE
    ELSE IF query.matchExactly THEN TagSet(flags, e) = {}
    ELSE TRUE

\* C29: a query whose validated tag list is empty, in one mode, raises no
\* error; in the default mode it accepts every tested entity that is not
\* ignored, with matchAny it accepts no entity, and with matchExactly it
\* accepts the entities without tags that are not ignored, and no entity with
\* tags
C29_EmptyQuery ==
    (/\ result.op # "none"
     /\ ValidateTags(query.tags) = <<>>
     /\ ~(query.matchAny /\ query.matchExactly)) =>
        /\ ~result.error
        /\ \A e \in Tested \ Ignored : Accepted(e) <=> EmptyQueryAccepts(e)
        /\ \A e \in Tested : Accepted(e) => EmptyQueryAccepts(e)

\* getByTag(",", {matchExactly: true}) returned the entity without tags and the
\* entity whose flag is an empty list, in scene order
C29_Witness ==
    /\ result.op = "getByTag"
    /\ query.tags = StringInput(<<",">>)
    /\ query.matchExactly /\ ~query.matchAny
    /\ query.ignore = <<>>
    /\ flags["e1"] = Unset
    /\ flags["e2"] = Stored(<<>>)
    /\ result.objects = <<"e1", "e2">>

\* getByTag("") in the default mode returned the only entity not ignored
C29_WitnessDefault ==
    /\ result.op = "getByTag"
    /\ query.tags = StringInput(<<>>)
    /\ ~query.matchExactly /\ ~query.matchAny
    /\ query.ignore = <<"e1">>
    /\ flags["e2"] = Stored(<< <<"a">> >>)
    /\ result.objects = <<"e2">>

\* a tag that is empty or holds blanks only
IsBlank(tag) == \A i \in 1..Len(tag) : tag[i] = " "

\* C23: whatever strings and arrays setTags, addTags, removeTags and
\* toggleTags are called with, no stored list and no list getTags returns
\* holds an empty or blank tag
C23_NoEmptyTag ==
    \A e \in Entities :
        /\ \A i \in 1..Len(FlagOrEmpty(flags, e)) : ~IsBlank(FlagOrEmpty(flags, e)[i])
        /\ \A i \in 1..Len(GetTags(e)) : ~IsBlank(GetTags(e)[i])

\* setTags(e1, "a,,b") has returned and e1 stores a and b
C23_Witness ==
    /\ Len(tasks) = 1
    /\ tasks[1].op = "setTags"
    /\ tasks[1].inTags = StringInput(<<"a", ",", ",", "b">>)
    /\ tasks[1].status = "done"
    /\ flags["e1"] = Stored(<< <<"a">>, <<"b">> >>)

\* the positions of the commas of s, and the position of the k-th comma: 0
\* for k = 0 and one past the end after the last comma
Commas(s) == {i \in 1..Len(s) : s[i] = ","}

NthComma(s, k) ==
    IF k = 0 THEN 0
    ELSE IF k > Cardinality(Commas(s)) THEN Len(s) + 1
    ELSE CHOOSE i \in Commas(s) : Cardinality({j \in Commas(s) : j <= i}) = k

\* the k-th comma-separated piece of s
NthPiece(s, k) == SubSeq(s, NthComma(s, k - 1) + 1, NthComma(s, k) - 1)

\* p from its first to its last character that is not a blank
Stripped(p) ==
    LET inked == {i \in 1..Len(p) : p[i] # " "}
    IN  IF inked = {} THEN <<>> ELSE SubSeq(p, Min(inked), Max(inked))

NotEmpty(t) == t # <<>>

\* the list the documentation describes for a tag input
Normalised(inTags) ==
    IF inTags.kind = "regexp" THEN << RegExpOf(inTags.s) >>
    ELSE LET items == IF inTags.kind = "array" THEN inTags.a
                      ELSE [k \in 1..(Cardinality(Commas(inTags.s)) + 1) |->
                                NthPiece(inTags.s, k)]
         IN  SelectSeq([k \in 1..Len(items) |->
                            IF IsRegExp(items[k]) THEN items[k] ELSE Stripped(items[k])],
                       NotEmpty)

\* C24: _validateTags turns a string into its comma-separated pieces, each
\* trimmed, in order and without the empty ones; an array into its strings
\* trimmed, without the empty ones, and its RegExps as they are; a RegExp
\* into the list of that RegExp
C24_Normalisation == ValidateTags(query.tags) = Normalised(query.tags)

\* getByTag("a, b ,c") looked for a, b and c and found the documents that
\* carry the three
C24_Witness ==
    /\ result.op = "getByTag"
    /\ query.tags = StringInput(<<"a", ",", " ", "b", " ", ",", "c">>)
    /\ ~query.matchAny
    /\ ValidateTags(query.tags) = << <<"a">>, <<"b">>, <<"c">> >>
    /\ flags["e1"] = Unset
    /\ flags["e2"] = Stored(<< <<"a">>, <<"b">>, <<"c">> >>)
    /\ result.objects = <<"e2">>

\* the arguments of the call t that are not valid: a null entity, or tags
\* that are a number or an array holding a number
BadTags(inTags) ==
    \/ inTags.kind = "number"
    \/ inTags.kind = "array" /\ NumberItem \in Range(inTags.a)

BadArguments(t) ==
    \/ Null \in Range(t.objs)
    \/ TakesTags(t.op) /\ BadTags(t.inTags)

\* C25: a call with a null entity anywhere in its list, or with tags that
\* are neither a string, a RegExp nor an array of those, throws, and it
\* issues no write: the flag of every entity is as it was
C25_RejectedBeforeAnyWrite ==
    \A k \in 1..Len(tasks) :
        BadArguments(tasks[k]) =>
            /\ tasks[k].status = "threw"
            /\ pending = <<>>
            /\ flags = before

\* addTags([e1, null], "a") threw and e1, listed before the null entry, is
\* as it was
C25_Witness ==
    /\ Len(tasks) = 1
    /\ tasks[1].op = "addTags"
    /\ tasks[1].objs = <<"e1", Null>>
    /\ tasks[1].inTags = StringInput(<<"a">>)
    /\ tasks[1].status = "threw"
    /\ flags["e1"] = Stored(<< <<"b">> >>)

\* what the pass of the call t on its j-th entity writes when the entity is
\* as it was before the call
NewFlag(t, j) ==
    PassOf(Program(before, NoIds, 0), scenes, t.objs[j], OptionsOf(t.op, t.tags)).f[t.objs[j]]

\* C26: a call on e1..en has at most one write on its way, that of the entity
\* it is at; the entities ahead of that one carry what their pass wrote and
\* the others are as before the call; the call returns only after the last
\* write was acknowledged; when a write is refused the call is rejected and
\* issues no further write
C26_OneWriteInListOrder ==
    \A k \in 1..Len(tasks) :
        LET t == tasks[k]
        IN  t.status # "threw" =>
                /\ Len(pending) <= 1
                /\ t.status = "waiting" <=> Len(pending) = 1
                /\ t.status = "waiting" => Head(pending).obj = t.objs[t.at]
                /\ t.status = "done" => t.at = Len(t.objs) + 1
                /\ t.status = "failed" => t.at \in 1..Len(t.objs)
                /\ \A j \in 1..Len(t.objs) :
                        flags[t.objs[j]] =
                            IF j < t.at THEN NewFlag(t, j) ELSE before[t.objs[j]]

\* toggleTags([e1, e2], "a") was rejected with the error of the write for
\* e2: e1 has its new tags and e2 is as it was
C26_Witness ==
    /\ Len(tasks) = 1
    /\ tasks[1].op = "toggleTags"
    /\ tasks[1].objs = <<"e1", "e2">>
    /\ tasks[1].tags = << <<"a">> >>
    /\ tasks[1].status = "failed"
    /\ tasks[1].at = 2
    /\ before["e1"] = Stored(<< <<"a">>, <<"b">> >>)
    /\ flags["e1"] = Stored(<< <<"b">> >>)
    /\ before["e2"] = Stored(<< <<"b">> >>)
    /\ flags["e2"] = Stored(<< <<"b">> >>)

\* every call is an addTags call that has returned
AllAdded ==
    \A k \in 1..Len(tasks) : tasks[k].op = "addTags" /\ tasks[k].status = "done"

\* the calls whose list names e
CallsOn(e) == {k \in 1..Len(tasks) : Includes(tasks[k].objs, e)}

\* C30: when an addTags call on an entity is made while another
\* awaits its write and both have returned, the entity carries the tags it
\* had and the tags of both
C30_NoLostUpdate ==
    \A i, j \in 1..Len(tasks) :
        (/\ i \in tasks[j].met
         /\ tasks[i].op = "addTags" /\ tasks[i].status = "done"
         /\ tasks[j].op = "addTags" /\ tasks[j].status = "done") =>
            \A e \in Range(tasks[i].objs) \cap Range(tasks[j].objs) :
                TagSet(before, e) \cup Range(tasks[i].tags) \cup Range(tasks[j].tags)
                    \subseteq TagSet(flags, e)

\* C30 as amended: when all addTags calls have returned, an entity carries
\* the tags it had, all the tags of at least one of the calls on it, and no
\* tag that it had not and no call gave
C30_OneCallSurvives ==
    AllAdded =>
        \A e \in Entities :
            /\ TagSet(before, e) \subseteq TagSet(flags, e)
            /\ CallsOn(e) # {} =>
                    \E k \in CallsOn(e) : Range(tasks[k].tags) \subseteq TagSet(flags, e)
            /\ TagSet(flags, e) \subseteq
                    TagSet(before, e) \cup UNION {Range(tasks[k].tags) : k \in CallsOn(e)}

\* addTags(e1, "b") was called while addTags(e1, "a") awaited its write; both
\* returned and e1 carries c and b, not a
C30_Witness ==
    /\ Len(tasks) = 2
    /\ AllAdded
    /\ tasks[1].objs = <<"e1">> /\ tasks[1].tags = << <<"a">> >>
    /\ tasks[2].objs = <<"e1">> /\ tasks[2].tags = << <<"b">> >>
    /\ tasks[2].met = {1}
    /\ before["e1"] = Stored(<< <<"c">> >>)
    /\ flags["e1"] = Stored(<< <<"c">>, <<"b">> >>)

\* the tags the creation k gave its document
CreatedTags(k) == flags[tasks[k].objs[1]].value

\* C28: of two creations whose data hold the same "{#}" template, the later
\* gets the number of the earlier if its hook ran while the earlier document
\* did not exist yet, and another number if the earlier document existed
C28_CollisionUnlessVisible ==
    \A i, j \in 1..Len(tasks) :
        (/\ i < j
         /\ tasks[i].op = "create" /\ tasks[i].status = "done"
         /\ tasks[j].op = "create" /\ tasks[j].status = "done") =>
            \A p \in 1..Len(tasks[i].tags), q \in 1..Len(tasks[j].tags) :
                (/\ IsCounterTemplate(tasks[i].tags[p])
                 /\ tasks[i].tags[p] = tasks[j].tags[q])
                    => (i \in tasks[j].met <=> CreatedTags(i)[p] = CreatedTags(j)[q])

====
